---- MODULE Spec2Model ----
(***************************************************************************)
(* ollama-tui: the presentation loop (pkg/ui), the streaming client        *)
(* (pkg/api) and the token relay between them, as one state machine.       *)
(*                                                                         *)
(* Threads of the program and how they appear here:                        *)
(*   - the Bubble Tea event loop calls Model.Update once per message; each *)
(*     Key*/Update* action below is one call of Update on one message;     *)
(*   - every tea.Cmd runs in its own goroutine; its result is a message in *)
(*     flight (msgs) that the loop may pick in any order;                  *)
(*   - every generation runs in a goroutine of its own (sess[s]); its      *)
(*     steps are cut at each channel send and each write to the client.    *)
(* Text is a sequence of one-character strings.                            *)
(***************************************************************************)
EXTENDS Integers, Sequences, FiniteSets, TLC

----------------------------------------------------------------------------
(* Bounds of the model *)

\* prompts submitted in one run (one generation session each)
MaxSessions == 2
\* lines one provider response carries before it ends or breaks
MaxLines == 2
\* the same in the decoding specification, which follows one session
MaxTraceLines == 3
\* characters typed into a text area
MaxInputLen == 1
\* lines of a response body in the relay specification, which follows one
\* session whose fragments the event loop may leave in the channel
MaxRelayLines == 100
\* characters of a response text in the wrapping specification, and the
\* line breaks among them
MaxWrapLen == 12
MaxWrapBreaks == 1
\* lines of the first response body in the backlog specification, which
\* follows a short turn and then a turn of up to MaxRelayLines lines
MaxFirstLines == 1

----------------------------------------------------------------------------
(* Program constants *)

StateProviderSelect == 0
StateAPIKeyInput == 1
StateModelSelect == 2
StatePrompting == 3
StateLoading == 4

\* make(chan TokenMsg, 100)
TokenChanCap == 100

DefaultOllamaURL == "http://localhost:11434"
DefaultOpenAIURL == "https://api.openai.com/v1"

\* NewModel: ScreenWidth 80
DefaultScreenWidth == 80
\* spinner.Dot: the frames of the spinner
SpinnerFrames == 8

----------------------------------------------------------------------------
(* Text *)

EmptyText == <<>>

IsSpace(c) == c \in {" ", "\n", "\t"}

RECURSIVE TrimLeft(_)
TrimLeft(s) ==
  IF s # <<>> /\ IsSpace(Head(s)) THEN TrimLeft(Tail(s)) ELSE s

RECURSIVE TrimRight(_)
TrimRight(s) ==
  IF s # <<>> /\ IsSpace(s[Len(s)])
  THEN TrimRight(SubSeq(s, 1, Len(s) - 1))
  ELSE s

\* strings.TrimSpace
TrimSpace(s) == TrimRight(TrimLeft(s))

\* strings.Split(text, sep) for a one-character separator
RECURSIVE SplitOn(_, _)
SplitOn(s, sep) ==
  IF \E i \in 1..Len(s) : s[i] = sep
  THEN LET i == CHOOSE k \in 1..Len(s) :
                  s[k] = sep /\ \A j \in 1..(k - 1) : s[j] # sep
       IN <<SubSeq(s, 1, i - 1)>> \o SplitOn(SubSeq(s, i + 1, Len(s)), sep)
  ELSE <<s>>

\* strings.Fields: the maximal runs of non-space characters
RECURSIVE Fields(_)
Fields(s) ==
  LET t == TrimLeft(s)
  IN IF t = <<>>
     THEN <<>>
     ELSE LET n == IF \E i \in 1..Len(t) : IsSpace(t[i])
                   THEN CHOOSE k \in 1..Len(t) :
                          IsSpace(t[k]) /\ \A j \in 1..(k - 1) : ~IsSpace(t[j])
                   ELSE Len(t) + 1
          IN <<SubSeq(t, 1, n - 1)>> \o Fields(SubSeq(t, n, Len(t)))

\* strings.Join(parts, sep)
RECURSIVE JoinWith(_, _)
JoinWith(parts, sep) ==
  IF parts = <<>> THEN <<>>
  ELSE IF Len(parts) = 1 THEN parts[1]
  ELSE parts[1] \o <<sep>> \o JoinWith(Tail(parts), sep)

\* WrapWords that forgets the space when it measures the line
RECURSIVE WrapWordsNoSpace(_, _, _)
WrapWordsNoSpace(words, currentLine, width) ==
  IF words = <<>>
  THEN IF currentLine # <<>> THEN <<currentLine>> ELSE <<>>
  ELSE IF Len(currentLine) + Len(Head(words)) > width
       THEN <<currentLine>>
            \o WrapWordsNoSpace(Tail(words), Head(words), width)
       ELSE WrapWordsNoSpace(Tail(words),
                             currentLine \o <<" ">> \o Head(words), width)

\* the inner loop of WrapText over words[1:], with currentLine accumulated
RECURSIVE WrapWords(_, _, _)
WrapWords(words, currentLine, width) ==
  IF words = <<>>
  THEN IF currentLine # <<>> THEN <<currentLine>> ELSE <<>>
  ELSE IF Len(currentLine) + 1 + Len(Head(words)) > width
       THEN <<currentLine>> \o WrapWords(Tail(words), Head(words), width)
       ELSE WrapWords(Tail(words), currentLine \o <<" ">> \o Head(words), width)

\* the body of WrapText's loop over lines: the output lines of one input line
WrapLine(line, width) ==
  IF Len(line) <= width
  THEN <<line>>
  ELSE LET words == Fields(line)
       IN IF words = <<>>
          THEN << <<>> >>
          ELSE WrapWords(Tail(words), Head(words), width)

RECURSIVE WrapLines(_, _)
WrapLines(lines, width) ==
  IF lines = <<>> THEN <<>>
  ELSE WrapLine(Head(lines), width) \o WrapLines(Tail(lines), width)

WrapText(text, width) ==
  IF width <= 10
  THEN text
  ELSE JoinWith(WrapLines(SplitOn(text, "\n"), width), "\n")

----------------------------------------------------------------------------
(* Inputs *)

Providers == {"ollama", "openai"}

\* what the environment or the saved configuration holds for the API key
KeyValues == {<<>>, <<"k">>}

\* model names a live listing returns (the installed models may be none)
ListedModels == {<<>>, <<"gpt-4">>}

\* getHardcodedOpenAIModels
HardcodedOpenAIModels == <<"gpt-3.5-turbo", "gpt-4", "gpt-4-turbo">>

\* characters a key press types into a text area
TypedChars == {"p"}

\* terminal widths a resize reports
Widths == {DefaultScreenWidth, 8}

\* the wrapping specification: the characters of a response text, and the
\* terminal widths, 10 columns wider than the width the text is wrapped to
WrapChars == {"a", " ", "\n"}
WrapScreenWidths == {20, 21}

----------------------------------------------------------------------------
(* State *)

VARIABLES
  \* ui.Model
  State, Models, SelectedProvider, SelectedModel, Input, APIKeyInput,
  Responses, CurrentPrompt, CurrentResponse, Err, InProgressResponse,
  IsGenerating, ScreenWidth, CancelGenerate,
  \* tea.Quit was returned: the event loop has stopped
  quit,
  \* api.Client (the global APIClient)
  BaseURL, context, openAIMessages,
  \* the global TokenChan
  TokenChan,
  \* Bubble Tea runtime: commands returned by Update and not yet run, messages
  \* produced by commands and not yet handed to Update, and the number of
  \* ListenForTokensCmd goroutines blocked on the channel
  cmds, msgs, listeners,
  \* generation goroutines, and how many were started
  sess, nsess,
  \* history: the sessions whose fragments Update appended to the transcript,
  \* in order of appending, a run of fragments of one session written once
  applied,
  \* what is explored: "program" is the whole program with one prompt,
  \* "chat" the prompting screen with MaxSessions prompts, "decode" one prompt
  \* with longer response bodies of more kinds of lines, "relay" one prompt
  \* with a body long enough to fill the channel, "wrap" the text of one open
  \* entry, "conversation" the prompting screen with the requests recorded,
  \* "backlog" a short turn and then a turn with a body that long
  scope,
  \* Model.Spinner: the frame it shows
  spinner,
  \* history, kept in scope "decode" only: the lines each session read from
  \* its response body and the fragments it pushed
  trace, sent,
  \* history, kept in scope "conversation" only: the last non-empty context a
  \* session decoded from a line since the client was made or cleared
  returned

uiVars == <<State, Models, SelectedProvider, SelectedModel, Input, APIKeyInput,
            Responses, CurrentPrompt, CurrentResponse, Err, InProgressResponse,
            IsGenerating, ScreenWidth, CancelGenerate, quit>>
clientVars == <<BaseURL, context, openAIMessages>>
runtimeVars == <<cmds, msgs, listeners>>
tickVars == <<scope, spinner>>
histVars == <<applied, tickVars, trace, sent, returned>>
vars == <<uiVars, clientVars, TokenChan, runtimeVars, sess, nsess, histVars>>

Sessions == 1..MaxSessions

tracing == scope = "decode"
recording == scope = "conversation"
\* the relay and the backlog specification follow bodies of lines that push
relaying == scope \in {"relay", "backlog"}
SessionBound ==
  IF scope \in {"chat", "conversation", "backlog"} THEN MaxSessions ELSE 1

\* text of a response fragment and context vectors a provider sends; the
\* decoding specification draws from more of them
Texts == IF tracing THEN {<<>>, <<"H", "i">>, <<"!">>}
         ELSE IF relaying THEN {<<"a">>}
         ELSE {<<>>, <<"a">>}
Contexts == IF recording THEN {<<>>, <<1, 2>>, <<3>>}
            ELSE IF relaying THEN {<<>>}
            ELSE {<<>>, <<1, 2>>}
LineBound == IF tracing THEN MaxTraceLines
             ELSE IF scope = "backlog" /\ nsess <= 1 THEN MaxFirstLines
             ELSE IF relaying THEN MaxRelayLines
             ELSE MaxLines

\* one line of a local-generator response body: a blank line, a line that is
\* no JSON object, or an object {response, done, context?}; the relay
\* specification follows bodies of objects
OllamaLines ==
  (IF relaying THEN {} ELSE {[kind |-> "blank"], [kind |-> "badjson"]})
  \cup [kind : {"json"}, response : Texts, done : BOOLEAN, context : Contexts]

\* one line of a hosted-chat response body, after TrimSpace: a blank line, the
\* sentinel "data: [DONE]", a line without the "data: " prefix, a data line
\* that is no JSON object, a data object without choices, and a data object
\* whose first choice has a finish_reason (or null) and a delta with content;
\* the relay specification follows bodies of deltas that end with the sentinel
\* or a finish_reason
OpenAILines ==
  (IF relaying
   THEN {[kind |-> "sentinel"]}
   ELSE {[kind |-> "blank"], [kind |-> "sentinel"], [kind |-> "noprefix"],
         [kind |-> "badjson"], [kind |-> "nochoices"]})
  \cup [kind : {"choice"}, finish : BOOLEAN, content : Texts]

\* a context.CancelFunc is named by the session it cancels; 0 is nil
NoCancel == 0

NoLine == [response |-> <<>>, done |-> FALSE, context |-> <<>>]

\* no request was sent: a request carries a context vector (GenerateRequest)
\* or messages (OpenAIChatRequest)
NoRequest == [context |-> <<>>, messages |-> <<>>]

\* a goroutine that was not started: its arguments, its context, its locals
\* (lines read, the decoded line in hand, assistantResponse), and its history:
\* the request it sent (recorded in scope "conversation"), how it ended, the fragments and terminal fragments it pushed, how many of
\* its fragments Update was handed, whether it changed the conversation state
\* and by how much the history grew
IdleSession ==
  [pc |-> "idle", provider |-> "", model |-> "", prompt |-> <<>>,
   cancelled |-> FALSE, nread |-> 0, cur |-> NoLine, assistant |-> <<>>,
   request |-> NoRequest, outcome |-> "none", err |-> "nil", endedBy |-> "none",
   nemit |-> 0, finals |-> 0, taken |-> 0, changed |-> FALSE, grew |-> 0]

Live(s) == sess[s].pc \notin {"idle", "done"}

\* NewModel, and the package's init
Init ==
  /\ State = StateProviderSelect
  /\ Models = <<>>
  /\ SelectedProvider = ""
  /\ SelectedModel = ""
  /\ Input = <<>>
  /\ APIKeyInput = <<>>
  /\ Responses = <<>>
  /\ CurrentPrompt = <<>>
  /\ CurrentResponse = <<>>
  /\ Err = "nil"
  /\ InProgressResponse = <<>>
  /\ IsGenerating = FALSE
  /\ ScreenWidth = DefaultScreenWidth
  /\ CancelGenerate = NoCancel
  /\ quit = FALSE
  /\ BaseURL = DefaultOllamaURL
  /\ context = <<>>
  /\ openAIMessages = <<>>
  /\ TokenChan = <<>>
  /\ cmds = {}
  /\ msgs = {}
  /\ listeners = 0
  /\ sess = [s \in Sessions |-> IdleSession]
  /\ nsess = 0
  /\ applied = <<>>
  /\ scope = "program"
  /\ spinner = 0
  /\ trace = [s \in Sessions |-> <<>>]
  /\ sent = [s \in Sessions |-> <<>>]
  /\ returned = <<>>

----------------------------------------------------------------------------
(* api.Client *)

\* NewClient: the base URL of a provider
ProviderURL(provider) ==
  IF provider = "openai" THEN DefaultOpenAIURL ELSE DefaultOllamaURL

\* HasContext that forgets the message history
HasContextVectorOnly == Len(context) > 0

\* HasContext
HasContext == Len(context) > 0 \/ Len(openAIMessages) > 0

\* ClearContext
ClearContext ==
  /\ context' = <<>>
  /\ openAIMessages' = <<>>
  /\ UNCHANGED BaseURL

\* context.CancelFunc: cancelling is idempotent and reaches the goroutine
\* through ctx.Done()
Cancelled(ss, s) ==
  IF s \in Sessions THEN [ss EXCEPT ![s].cancelled = TRUE] ELSE ss

----------------------------------------------------------------------------
(* ui.Model.Update: key messages *)

\* "ctrl+c", "esc"
KeyCtrlC ==
  /\ ~quit
  /\ sess' = IF IsGenerating /\ CancelGenerate # NoCancel
             THEN Cancelled(sess, CancelGenerate)
             ELSE sess
  /\ IF State = StateAPIKeyInput
     THEN /\ State' = StateProviderSelect
          /\ UNCHANGED quit
     ELSE /\ quit' = TRUE
          /\ UNCHANGED State
  /\ UNCHANGED <<Models, SelectedProvider, SelectedModel, Input, APIKeyInput,
                 Responses, CurrentPrompt, CurrentResponse, Err,
                 InProgressResponse, IsGenerating, ScreenWidth, CancelGenerate>>
  /\ UNCHANGED <<clientVars, TokenChan, runtimeVars, nsess, histVars>>

\* "ctrl+n"
KeyCtrlN ==
  /\ ~quit
  /\ State = StatePrompting
  /\ ClearContext
  /\ returned' = <<>>
  /\ UNCHANGED <<uiVars, TokenChan, runtimeVars, sess, nsess, applied, tickVars,
                 trace, sent>>

\* ResolvedKey that does not look into the configuration file
ResolvedKeyEnvOnly(envKey, cfgKey, loaded) == envKey

\* the API key "enter" in StateProviderSelect finds for openai: the one the
\* environment holds, else the one the configuration file holds when it loads
ResolvedKey(envKey, cfgKey, loaded) ==
  IF envKey # <<>> THEN envKey
  ELSE IF loaded THEN cfgKey ELSE <<>>

\* "enter" in StateProviderSelect with provider p selected in the list and
\* apiKey found
EnterProviderWith(p, apiKey) ==
  /\ ~quit
  /\ State = StateProviderSelect
  /\ SelectedProvider' = p
  /\ IF p = "openai" /\ apiKey = <<>>
     THEN /\ State' = StateAPIKeyInput
          /\ APIKeyInput' = <<>>
          /\ UNCHANGED cmds
     ELSE /\ State' = StateModelSelect
          /\ cmds' = cmds \cup {[type |-> "FetchModelsCmd", provider |-> p]}
          /\ UNCHANGED APIKeyInput
  /\ UNCHANGED <<Models, SelectedModel, Input, Responses, CurrentPrompt,
                 CurrentResponse, Err, InProgressResponse, IsGenerating,
                 ScreenWidth, CancelGenerate, quit>>
  /\ UNCHANGED <<clientVars, TokenChan, msgs, listeners, sess, nsess, histVars>>

\* "enter" in StateProviderSelect
EnterProvider ==
  \E p \in Providers, envKey \in KeyValues, cfgKey \in KeyValues,
     loaded \in BOOLEAN :
    EnterProviderWith(p, ResolvedKey(envKey, cfgKey, loaded))

\* "enter" in StateAPIKeyInput: a non-blank key is stored (saving it to the
\* configuration file may fail, which only sets Err) and the models are
\* fetched; a blank key falls through to the text area, which takes the
\* key as a line break
EnterAPIKey ==
  /\ ~quit
  /\ State = StateAPIKeyInput
  /\ IF TrimSpace(APIKeyInput) # <<>>
     THEN /\ \E saved \in BOOLEAN : Err' = IF saved THEN Err ELSE "savekey"
          /\ State' = StateModelSelect
          /\ cmds' = cmds \cup {[type |-> "FetchModelsCmd",
                                 provider |-> SelectedProvider]}
          /\ UNCHANGED APIKeyInput
     ELSE /\ Len(APIKeyInput) < MaxInputLen
          /\ APIKeyInput' = Append(APIKeyInput, "\n")
          /\ UNCHANGED <<State, Err, cmds>>
  /\ UNCHANGED <<Models, SelectedProvider, SelectedModel, Input, Responses,
                 CurrentPrompt, CurrentResponse, InProgressResponse,
                 IsGenerating, ScreenWidth, CancelGenerate,
                 quit>>
  /\ UNCHANGED <<clientVars, TokenChan, msgs, listeners, sess, nsess, histVars>>

\* "enter" in StateModelSelect with an item selected
EnterModel ==
  /\ ~quit
  /\ State = StateModelSelect
  /\ \E i \in 1..Len(Models) : SelectedModel' = Models[i]
  /\ State' = StatePrompting
  /\ UNCHANGED <<Models, SelectedProvider, Input, APIKeyInput, Responses,
                 CurrentPrompt, CurrentResponse, Err, InProgressResponse,
                 IsGenerating, ScreenWidth, CancelGenerate,
                 quit>>
  /\ UNCHANGED <<clientVars, TokenChan, runtimeVars, sess, nsess, histVars>>

\* EnterPrompt that does not set IsGenerating
EnterPromptNotGenerating ==
  /\ ~quit
  /\ State = StatePrompting
  /\ TrimSpace(Input) # <<>>
  /\ Len(Responses) < SessionBound
  /\ sess' = IF IsGenerating /\ CancelGenerate # NoCancel
             THEN Cancelled(sess, CancelGenerate)
             ELSE sess
  /\ CurrentPrompt' = Input
  /\ Input' = <<>>
  /\ State' = StateLoading
  /\ UNCHANGED IsGenerating
  /\ InProgressResponse' = <<>>
  /\ Responses' = Append(Responses, [prompt |-> Input, response |-> <<>>])
  /\ cmds' = cmds \cup {[type |-> "StartGenerateResponseCmd",
                         model |-> SelectedModel, prompt |-> Input]}
  /\ UNCHANGED <<Models, SelectedProvider, SelectedModel, APIKeyInput,
                 CurrentResponse, Err, ScreenWidth, CancelGenerate, quit>>
  /\ UNCHANGED <<clientVars, TokenChan, msgs, listeners, nsess, histVars>>

\* "enter" in StatePrompting with a non-blank input: submit the prompt
EnterPrompt ==
  /\ ~quit
  /\ State = StatePrompting
  /\ TrimSpace(Input) # <<>>
  /\ Len(Responses) < SessionBound
  /\ sess' = IF IsGenerating /\ CancelGenerate # NoCancel
             THEN Cancelled(sess, CancelGenerate)
             ELSE sess
  /\ CurrentPrompt' = Input
  /\ Input' = <<>>
  /\ State' = StateLoading
  /\ IsGenerating' = TRUE
  /\ InProgressResponse' = <<>>
  /\ Responses' = Append(Responses, [prompt |-> Input, response |-> <<>>])
  /\ cmds' = cmds \cup {[type |-> "StartGenerateResponseCmd",
                         model |-> SelectedModel, prompt |-> Input]}
  /\ UNCHANGED <<Models, SelectedProvider, SelectedModel, APIKeyInput,
                 CurrentResponse, Err, ScreenWidth, CancelGenerate, quit>>
  /\ UNCHANGED <<clientVars, TokenChan, msgs, listeners, nsess, histVars>>

\* EnterBlank without the check of the trimmed input: a blank prompt is
\* submitted
EnterBlankSubmits ==
  /\ ~quit
  /\ State = StatePrompting
  /\ TrimSpace(Input) = <<>>
  /\ Len(Responses) < SessionBound
  /\ CurrentPrompt' = Input
  /\ Input' = <<>>
  /\ State' = StateLoading
  /\ IsGenerating' = TRUE
  /\ InProgressResponse' = <<>>
  /\ Responses' = Append(Responses, [prompt |-> Input, response |-> <<>>])
  /\ cmds' = cmds \cup {[type |-> "StartGenerateResponseCmd",
                         model |-> SelectedModel, prompt |-> Input]}
  /\ UNCHANGED <<Models, SelectedProvider, SelectedModel, APIKeyInput,
                 CurrentResponse, Err, ScreenWidth, CancelGenerate, quit>>
  /\ UNCHANGED <<clientVars, TokenChan, msgs, listeners, sess, nsess, histVars>>

\* "enter" in StatePrompting with a blank input: the key falls through to the
\* text area, which takes it as a line break
EnterBlank ==
  /\ ~quit
  /\ State = StatePrompting
  /\ TrimSpace(Input) = <<>>
  /\ Len(Input) < MaxInputLen
  /\ Input' = Append(Input, "\n")
  /\ UNCHANGED <<State, Models, SelectedProvider, SelectedModel, APIKeyInput,
                 Responses, CurrentPrompt, CurrentResponse, Err,
                 InProgressResponse, IsGenerating, ScreenWidth, CancelGenerate, quit>>
  /\ UNCHANGED <<clientVars, TokenChan, runtimeVars, sess, nsess, histVars>>

\* any other key in StateAPIKeyInput: Update's final switch hands it to the
\* text area, which appends a typed character or deletes the last one
KeyOtherAPIKey ==
  /\ ~quit
  /\ State = StateAPIKeyInput
  /\ \/ \E c \in TypedChars :
          /\ Len(APIKeyInput) < MaxInputLen
          /\ APIKeyInput' = Append(APIKeyInput, c)
     \/ /\ APIKeyInput # <<>>
        /\ APIKeyInput' = SubSeq(APIKeyInput, 1, Len(APIKeyInput) - 1)
  /\ UNCHANGED <<State, Models, SelectedProvider, SelectedModel, Input,
                 Responses, CurrentPrompt, CurrentResponse, Err,
                 InProgressResponse, IsGenerating, ScreenWidth, CancelGenerate,
                 quit>>
  /\ UNCHANGED <<clientVars, TokenChan, runtimeVars, sess, nsess, histVars>>

\* any other key in StatePrompting: the same with the prompt's text area
KeyOtherPrompt ==
  /\ ~quit
  /\ State = StatePrompting
  /\ \/ \E c \in TypedChars :
          /\ Len(Input) < MaxInputLen
          /\ Input' = Append(Input, c)
     \/ /\ Input # <<>>
        /\ Input' = SubSeq(Input, 1, Len(Input) - 1)
  /\ UNCHANGED <<State, Models, SelectedProvider, SelectedModel, APIKeyInput,
                 Responses, CurrentPrompt, CurrentResponse, Err,
                 InProgressResponse, IsGenerating, ScreenWidth, CancelGenerate,
                 quit>>
  /\ UNCHANGED <<clientVars, TokenChan, runtimeVars, sess, nsess, histVars>>

----------------------------------------------------------------------------
(* ui.Model.Update: messages produced by commands *)

\* case SetCancelFuncMsg
UpdateSetCancelFunc ==
  /\ ~quit
  /\ \E m \in msgs :
       /\ m.type = "SetCancelFuncMsg"
       /\ CancelGenerate' = m.Cancel
       /\ msgs' = msgs \ {m}
  /\ UNCHANGED <<State, Models, SelectedProvider, SelectedModel, Input,
                 APIKeyInput, Responses, CurrentPrompt, CurrentResponse, Err,
                 InProgressResponse, IsGenerating, ScreenWidth,
                 quit>>
  /\ UNCHANGED <<clientVars, TokenChan, cmds, listeners, sess, nsess, histVars>>

\* case FetchModelsMsg
UpdateFetchModels ==
  /\ ~quit
  /\ \E m \in msgs :
       /\ m.type = "FetchModelsMsg"
       /\ Models' = m.Models
       /\ msgs' = msgs \ {m}
  /\ UNCHANGED <<State, SelectedProvider, SelectedModel, Input, APIKeyInput,
                 Responses, CurrentPrompt, CurrentResponse, Err,
                 InProgressResponse, IsGenerating, ScreenWidth, CancelGenerate, quit>>
  /\ UNCHANGED <<clientVars, TokenChan, cmds, listeners, sess, nsess, histVars>>

\* UpdateResponse that rewrites the first entry
UpdateResponseFirst(responses, prompt, response) ==
  IF Len(responses) > 0
  THEN LET responseText == IF ScreenWidth > 10
                           THEN WrapText(response, ScreenWidth - 10)
                           ELSE response
       IN [responses EXCEPT ![1] =
             [prompt |-> prompt, response |-> responseText]]
  ELSE responses

\* Model.UpdateResponse: the last entry is rewritten with the wrapped response
UpdateResponse(responses, prompt, response) ==
  IF Len(responses) > 0
  THEN LET responseText == IF ScreenWidth > 10
                           THEN WrapText(response, ScreenWidth - 10)
                           ELSE response
       IN [responses EXCEPT ![Len(responses)] =
             [prompt |-> prompt, response |-> responseText]]
  ELSE responses

\* UpdateToken that returns ListenForTokensCmd after a terminal fragment too
UpdateTokenRearms ==
  /\ ~quit
  /\ \E m \in msgs :
       /\ m.type = "TokenMsg"
       /\ msgs' = msgs \ {m}
       /\ sess' = [sess EXCEPT ![m.sid].taken = @ + 1]
       /\ IF m.Done /\ ~IsGenerating
          THEN UNCHANGED <<State, Responses, CurrentResponse,
                           InProgressResponse, IsGenerating, CancelGenerate,
                           listeners, applied>>
          ELSE /\ InProgressResponse' = InProgressResponse \o m.Token
               /\ Responses' = UpdateResponse(Responses, CurrentPrompt,
                                              InProgressResponse')
               /\ applied' = IF applied # <<>>
                                 /\ applied[Len(applied)] = m.sid
                              THEN applied
                              ELSE Append(applied, m.sid)
               /\ IF m.Done
                  THEN /\ CurrentResponse' = InProgressResponse'
                       /\ IsGenerating' = FALSE
                       /\ State' = StatePrompting
                       /\ CancelGenerate' = NoCancel
                       /\ listeners' = listeners + 1
                  ELSE /\ listeners' = listeners + 1
                       /\ UNCHANGED <<State, CurrentResponse, IsGenerating,
                                      CancelGenerate>>
  /\ UNCHANGED <<Models, SelectedProvider, SelectedModel, Input, APIKeyInput,
                 CurrentPrompt, Err, ScreenWidth, quit>>
  /\ UNCHANGED <<clientVars, TokenChan, cmds, nsess, tickVars, trace, sent,
                 returned>>

\* case TokenMsg
UpdateToken ==
  /\ ~quit
  /\ \E m \in msgs :
       /\ m.type = "TokenMsg"
       /\ msgs' = msgs \ {m}
       /\ sess' = [sess EXCEPT ![m.sid].taken = @ + 1]
       /\ IF m.Done /\ ~IsGenerating
          THEN UNCHANGED <<State, Responses, CurrentResponse,
                           InProgressResponse, IsGenerating, CancelGenerate,
                           listeners, applied>>
          ELSE /\ InProgressResponse' = InProgressResponse \o m.Token
               /\ Responses' = UpdateResponse(Responses, CurrentPrompt,
                                              InProgressResponse')
               /\ applied' = IF applied # <<>>
                                 /\ applied[Len(applied)] = m.sid
                              THEN applied
                              ELSE Append(applied, m.sid)
               /\ IF m.Done
                  THEN /\ CurrentResponse' = InProgressResponse'
                       /\ IsGenerating' = FALSE
                       /\ State' = StatePrompting
                       /\ CancelGenerate' = NoCancel
                       /\ UNCHANGED listeners
                  ELSE /\ listeners' = listeners + 1
                       /\ UNCHANGED <<State, CurrentResponse, IsGenerating,
                                      CancelGenerate>>
  /\ UNCHANGED <<Models, SelectedProvider, SelectedModel, Input, APIKeyInput,
                 CurrentPrompt, Err, ScreenWidth, quit>>
  /\ UNCHANGED <<clientVars, TokenChan, cmds, nsess, tickVars, trace, sent,
                 returned>>

\* case ErrorMsg
UpdateError ==
  /\ ~quit
  /\ \E m \in msgs :
       /\ m.type = "ErrorMsg"
       /\ Err' = m.Err
       /\ msgs' = msgs \ {m}
  /\ IsGenerating' = FALSE
  /\ State' = StatePrompting
  /\ CancelGenerate' = NoCancel
  /\ UNCHANGED <<Models, SelectedProvider, SelectedModel, Input, APIKeyInput,
                 Responses, CurrentPrompt, CurrentResponse, InProgressResponse,
                 ScreenWidth, quit>>
  /\ UNCHANGED <<clientVars, TokenChan, cmds, listeners, sess, nsess, histVars>>

\* UpdateWindowSize that starts the open entry's text afresh
UpdateWindowSizeResets ==
  /\ ~quit
  /\ \E w \in Widths :
       /\ w # ScreenWidth
       /\ ScreenWidth' = w
  /\ InProgressResponse' = <<>>
  /\ UNCHANGED <<State, Models, SelectedProvider, SelectedModel, Input,
                 APIKeyInput, Responses, CurrentPrompt, CurrentResponse, Err,
                 IsGenerating, CancelGenerate, quit>>
  /\ UNCHANGED <<clientVars, TokenChan, runtimeVars, sess, nsess, histVars>>

\* case tea.WindowSizeMsg: the terminal was resized (the same message is sent by
\* Update itself after a screen change, with the size it already holds); the
\* rest of the case lays out the list, the input box and the viewport
UpdateWindowSize ==
  /\ ~quit
  /\ \E w \in Widths :
       /\ w # ScreenWidth
       /\ ScreenWidth' = w
  /\ UNCHANGED <<State, Models, SelectedProvider, SelectedModel, Input,
                 APIKeyInput, Responses, CurrentPrompt, CurrentResponse, Err,
                 InProgressResponse, IsGenerating, CancelGenerate, quit>>
  /\ UNCHANGED <<clientVars, TokenChan, runtimeVars, sess, nsess, histVars>>

\* case spinner.TickMsg: the spinner shows its next frame and asks for the
\* next tick
SpinnerTick ==
  /\ ~quit
  /\ spinner' = (spinner + 1) % SpinnerFrames
  /\ UNCHANGED <<uiVars, clientVars, TokenChan, runtimeVars, sess, nsess,
                 applied, scope, trace, sent, returned>>

\* any other key in StateLoading: Update's final switch hands it to the
\* spinner, which ignores keys
KeyOtherLoading ==
  /\ ~quit
  /\ State = StateLoading
  /\ UNCHANGED vars

----------------------------------------------------------------------------
(* Commands *)

\* FetchModelsCmd with Client.FetchModels: a new client replaces the global one;
\* for openai every failure yields the hardcoded list; for the local generator
\* a failure to open the log file yields the hardcoded list too, a failed or
\* undecodable listing is an error, and a listing may be empty
FetchModelsCmd ==
  /\ \E c \in cmds :
       /\ c.type = "FetchModelsCmd"
       /\ cmds' = cmds \ {c}
       /\ BaseURL' = ProviderURL(c.provider)
       /\ context' = <<>>
       /\ openAIMessages' = <<>>
       /\ \/ /\ msgs' = msgs \cup {[type |-> "FetchModelsMsg",
                                   Models |-> HardcodedOpenAIModels]}
          \/ /\ BaseURL' = DefaultOpenAIURL
             /\ \E l \in ListedModels \ {<<>>} :
                  msgs' = msgs \cup {[type |-> "FetchModelsMsg", Models |-> l]}
          \/ /\ BaseURL' # DefaultOpenAIURL
             /\ \E l \in ListedModels :
                  msgs' = msgs \cup {[type |-> "FetchModelsMsg", Models |-> l]}
          \/ /\ BaseURL' # DefaultOpenAIURL
             /\ msgs' = msgs \cup {[type |-> "ErrorMsg", Err |-> "fetch"]}
  /\ returned' = <<>>
  /\ UNCHANGED <<uiVars, TokenChan, listeners, sess, nsess, applied, tickVars,
                 trace, sent>>

\* ListenForTokensCmd: one receive from the channel, delivered as a message
ListenForTokensCmd ==
  /\ listeners > 0
  /\ TokenChan # <<>>
  /\ msgs' = msgs \cup {Head(TokenChan)}
  /\ TokenChan' = Tail(TokenChan)
  /\ listeners' = listeners - 1
  /\ UNCHANGED <<uiVars, clientVars, cmds, sess, nsess, histVars>>

\* StartGenerateResponseCmd: a cancellable context, the generation goroutine,
\* and the batch of the SetCancelFuncMsg command and ListenForTokensCmd, which
\* the event loop runs unless it has stopped
StartGenerateResponseCmd ==
  /\ \E c \in cmds :
       /\ c.type = "StartGenerateResponseCmd"
       /\ cmds' = cmds \ {c}
       /\ nsess' = nsess + 1
       /\ sess' = [sess EXCEPT ![nsess + 1] =
                     [IdleSession EXCEPT !.pc = "open", !.model = c.model,
                                         !.prompt = c.prompt]]
       /\ IF quit
          THEN UNCHANGED <<msgs, listeners>>
          ELSE /\ msgs' = msgs \cup {[type |-> "SetCancelFuncMsg",
                                      Cancel |-> nsess + 1]}
               /\ listeners' = listeners + 1
  /\ UNCHANGED <<uiVars, clientVars, TokenChan, histVars>>

----------------------------------------------------------------------------
(* The generation goroutine: generateResponseAsync, Client.GenerateResponse  *)
(* and Client.generateOpenAIResponse                                         *)

Tok(s, token, done) ==
  [type |-> "TokenMsg", Token |-> token, Done |-> done,
   sid |-> s, seq |-> sess[s].nemit + 1]

\* the goroutine returns: its locals are gone
Returned(r) == [r EXCEPT !.pc = "done", !.nread = 0, !.cur = NoLine,
                         !.assistant = <<>>]

\* Callback with a send that gives up when the channel is full
CallbackDropping(s, token, done, pc) ==
  /\ TokenChan' = IF Len(TokenChan) < TokenChanCap
                  THEN Append(TokenChan, Tok(s, token, done))
                  ELSE TokenChan
  /\ LET r == [sess[s] EXCEPT !.nemit = @ + 1,
                              !.finals = IF done THEN @ + 1 ELSE @,
                              !.pc = pc]
     IN sess' = [sess EXCEPT ![s] = IF pc = "done" THEN Returned(r) ELSE r]
  /\ sent' = IF tracing
             THEN [sent EXCEPT ![s] = Append(@, [Token |-> token,
                                                 Done |-> done])]
             ELSE sent
  /\ UNCHANGED <<applied, tickVars, trace, returned>>

\* the callback of StartGenerateResponseCmd: TokenChan <- TokenMsg{token, done},
\* which blocks while the channel is full; pc is where the caller goes on
Callback(s, token, done, pc) ==
  /\ Len(TokenChan) < TokenChanCap
  /\ TokenChan' = Append(TokenChan, Tok(s, token, done))
  /\ LET r == [sess[s] EXCEPT !.nemit = @ + 1,
                              !.finals = IF done THEN @ + 1 ELSE @,
                              !.pc = pc]
     IN sess' = [sess EXCEPT ![s] = IF pc = "done" THEN Returned(r) ELSE r]
  /\ sent' = IF tracing
             THEN [sent EXCEPT ![s] = Append(@, [Token |-> token,
                                                 Done |-> done])]
             ELSE sent
  /\ UNCHANGED <<applied, tickVars, trace, returned>>

\* the body yielded a line
Traced(s, line) ==
  /\ trace' = IF tracing THEN [trace EXCEPT ![s] = Append(@, line)] ELSE trace
  /\ UNCHANGED <<applied, tickVars, sent>>

\* AfterEmit that stores the context of every line, empty or not
AfterEmitAlwaysSaves(line) == "save"

\* where GenerateResponse goes after its callback for the text of a line
AfterEmit(line) ==
  IF line.context # <<>> THEN "save"
  ELSE IF line.done THEN "final"
  ELSE "scan"

\* AfterParse without the check of genResp.Response
AfterParseEmitsEmpty(line) == "emit"

\* where GenerateResponse goes with a decoded line
AfterParse(line) ==
  IF line.response # <<>> THEN "emit" ELSE AfterEmit(line)

\* GenerateResponse up to c.client.Do: the request fails when its context is
\* cancelled already, and may fail
GenOpen(s) ==
  /\ sess[s].pc = "open"
  /\ BaseURL # DefaultOpenAIURL
  /\ \E ok \in BOOLEAN :
       /\ ok => ~sess[s].cancelled
       /\ sess' = [sess EXCEPT
            ![s].provider = "ollama",
            ![s].request = IF recording
                           THEN [context |-> context, messages |-> <<>>]
                           ELSE @,
            ![s].pc = IF ok THEN "scan" ELSE "errfinal",
            ![s].outcome = IF ok THEN @ ELSE "failed",
            ![s].err = IF ok THEN @ ELSE "send"]
  /\ UNCHANGED <<uiVars, clientVars, TokenChan, runtimeVars, nsess, histVars>>

\* one turn of the scanner loop with a line: the select on ctx.Done() comes
\* first; a blank line and a line that does not decode are skipped
GenScanLine(s) ==
  /\ sess[s].pc = "scan"
  /\ sess[s].nread < LineBound
  /\ \E line \in OllamaLines :
       /\ Traced(s, line)
       /\ sess' = [sess EXCEPT
            ![s].nread = @ + 1,
            ![s].pc = IF sess[s].cancelled THEN "final"
                      ELSE IF line.kind = "json" THEN AfterParse(line)
                      ELSE "scan",
            ![s].cur = IF ~sess[s].cancelled /\ line.kind = "json"
                       THEN [response |-> line.response, done |-> line.done,
                             context |-> line.context]
                       ELSE @,
            ![s].outcome = IF sess[s].cancelled THEN "cancelled"
                           ELSE IF line.kind = "json" /\ line.done
                           THEN "completed"
                           ELSE @,
            ![s].endedBy = IF ~sess[s].cancelled /\ line.kind = "json"
                              /\ line.done
                           THEN "done" ELSE @]
       /\ returned' = IF recording /\ ~sess[s].cancelled /\ line.kind = "json"
                         /\ line.context # <<>>
                      THEN line.context
                      ELSE returned
  /\ UNCHANGED <<uiVars, clientVars, TokenChan, runtimeVars, nsess>>

\* GenScanEnd without the callback at the end of the body
GenScanEndSilent(s) ==
  /\ sess[s].pc = "scan"
  /\ \/ sess' = [sess EXCEPT ![s] = Returned([@ EXCEPT !.outcome = "completed",
                                                        !.endedBy = "eof"])]
     \/ sess' = [sess EXCEPT ![s].pc = "errfinal", ![s].outcome = "failed",
                             ![s].err = "scan"]
  /\ UNCHANGED <<uiVars, clientVars, TokenChan, runtimeVars, nsess, histVars>>

\* scanner.Scan() returns false: the body ended, or reading it failed
GenScanEnd(s) ==
  /\ sess[s].pc = "scan"
  /\ \/ sess' = [sess EXCEPT ![s].pc = "final", ![s].outcome = "completed",
                             ![s].endedBy = "eof"]
     \/ sess' = [sess EXCEPT ![s].pc = "errfinal", ![s].outcome = "failed",
                             ![s].err = "scan"]
  /\ UNCHANGED <<uiVars, clientVars, TokenChan, runtimeVars, nsess, histVars>>

\* callback(genResp.Response, genResp.Done)
GenEmit(s) ==
  /\ sess[s].pc = "emit"
  /\ sess[s].provider = "ollama"
  /\ Callback(s, sess[s].cur.response, sess[s].cur.done,
              AfterEmit(sess[s].cur))
  /\ UNCHANGED <<uiVars, clientVars, runtimeVars, nsess>>

\* c.context = genResp.Context
GenSave(s) ==
  /\ sess[s].pc = "save"
  /\ context' = sess[s].cur.context
  /\ sess' = [sess EXCEPT
       ![s].pc = IF sess[s].cur.done THEN "final" ELSE "scan",
       ![s].changed = @ \/ context # sess[s].cur.context]
  /\ UNCHANGED <<uiVars, BaseURL, openAIMessages, TokenChan, runtimeVars,
                 nsess, histVars>>

\* callback("", true) of GenerateResponse: on cancellation, after a done line,
\* and at the end of the body
GenFinal(s) ==
  /\ sess[s].pc = "final"
  /\ sess[s].provider = "ollama"
  /\ Callback(s, <<>>, TRUE, "done")
  /\ UNCHANGED <<uiVars, clientVars, runtimeVars, nsess>>

\* generateResponseAsync: GenerateResponse returned an error
AsyncErrFinal(s) ==
  /\ sess[s].pc = "errfinal"
  /\ Callback(s, <<>>, TRUE, "done")
  /\ UNCHANGED <<uiVars, clientVars, runtimeVars, nsess>>

\* OpenAILineAction that gives up the stream at a data line that is no JSON
OpenAILineActionStrict(line) ==
  IF line.kind = "blank" THEN "skip"
  ELSE IF line.kind \in {"sentinel", "badjson"} THEN "end"
  ELSE IF line.kind \in {"noprefix", "nochoices"} THEN "skip"
  ELSE IF line.finish THEN "end"
  ELSE IF line.content # <<>> THEN "delta"
  ELSE "skip"

\* what generateOpenAIResponse does with one line of the body
\*   "skip"   continue with the next line
\*   "end"    commit the turn, emit the terminal fragment, return
\*   "delta"  accumulate the content and emit it
OpenAILineAction(line) ==
  IF line.kind = "blank" THEN "skip"
  ELSE IF line.kind = "sentinel" THEN "end"
  ELSE IF line.kind \in {"noprefix", "badjson", "nochoices"} THEN "skip"
  ELSE IF line.finish THEN "end"
  ELSE IF line.content # <<>> THEN "delta"
  ELSE "skip"

\* AfterEnd without the check of assistantResponse.Len()
AfterEndAlways(assistant) == "commit"

\* the turn is committed only when the assistant said something
AfterEnd(assistant) == IF Len(assistant) > 0 THEN "commit" ELSE "final"

\* OaOpen that appends the user message to the history when it sends
OaOpenCommitsUser(s) ==
  /\ sess[s].pc = "open"
  /\ BaseURL = DefaultOpenAIURL
  /\ openAIMessages' = openAIMessages
        \o <<[role |-> "user", content |-> sess[s].prompt]>>
  /\ \E res \in {"ok", "send", "status"} :
       /\ sess[s].cancelled => res = "send"
       /\ sess' = [sess EXCEPT
            ![s].provider = "openai",
            ![s].request = IF recording
                           THEN [context |-> <<>>, messages |-> openAIMessages']
                           ELSE @,
            ![s].pc = IF res = "ok" THEN "poll" ELSE "errfinal",
            ![s].outcome = IF res = "ok" THEN @ ELSE "failed",
            ![s].err = IF res = "ok" THEN @ ELSE res]
  /\ UNCHANGED <<uiVars, BaseURL, context, TokenChan, runtimeVars, nsess,
                 histVars>>

\* generateOpenAIResponse up to the status check
OaOpen(s) ==
  /\ sess[s].pc = "open"
  /\ BaseURL = DefaultOpenAIURL
  /\ \E res \in {"ok", "send", "status"} :
       /\ sess[s].cancelled => res = "send"
       /\ sess' = [sess EXCEPT
            ![s].provider = "openai",
            ![s].request =
               IF recording
               THEN [context |-> <<>>,
                     messages |-> openAIMessages
                        \o <<[role |-> "user", content |-> sess[s].prompt]>>]
               ELSE @,
            ![s].pc = IF res = "ok" THEN "poll" ELSE "errfinal",
            ![s].outcome = IF res = "ok" THEN @ ELSE "failed",
            ![s].err = IF res = "ok" THEN @ ELSE res]
  /\ UNCHANGED <<uiVars, clientVars, TokenChan, runtimeVars, nsess, histVars>>

\* OaPoll that notes the cancellation and reads on
OaPollReadsOn(s) ==
  /\ sess[s].pc = "poll"
  /\ sess' = [sess EXCEPT
       ![s].pc = "read",
       ![s].outcome = IF sess[s].cancelled THEN "cancelled" ELSE @]
  /\ UNCHANGED <<uiVars, clientVars, TokenChan, runtimeVars, nsess, histVars>>

\* the select on ctx.Done() at the head of the read loop
OaPoll(s) ==
  /\ sess[s].pc = "poll"
  /\ sess' = [sess EXCEPT
       ![s].pc = IF sess[s].cancelled THEN "final" ELSE "read",
       ![s].outcome = IF sess[s].cancelled THEN "cancelled" ELSE @]
  /\ UNCHANGED <<uiVars, clientVars, TokenChan, runtimeVars, nsess, histVars>>

\* reader.ReadString('\n') with a line, and the decoding of the line
OaReadLine(s) ==
  /\ sess[s].pc = "read"
  /\ sess[s].nread < LineBound
  /\ \E line \in OpenAILines :
       LET act == OpenAILineAction(line)
           text == IF act = "delta"
                   THEN sess[s].assistant \o line.content
                   ELSE sess[s].assistant
       IN /\ Traced(s, line)
          /\ sess' = [sess EXCEPT
               ![s].nread = @ + 1,
               ![s].assistant = text,
               ![s].cur = IF act = "delta"
                          THEN [response |-> line.content, done |-> FALSE,
                                context |-> <<>>]
                          ELSE @,
               ![s].pc = IF act = "delta" THEN "emit"
                         ELSE IF act = "end" THEN AfterEnd(text)
                         ELSE "poll",
               ![s].outcome = IF act = "end" THEN "completed" ELSE @,
               ![s].endedBy = IF act # "end" THEN @
                              ELSE IF line.kind = "sentinel" THEN "sentinel"
                              ELSE "finish"]
  /\ UNCHANGED <<uiVars, clientVars, TokenChan, runtimeVars, nsess, returned>>

\* reader.ReadString('\n') returns an error: io.EOF, or another
OaReadEnd(s) ==
  /\ sess[s].pc = "read"
  /\ \/ sess' = [sess EXCEPT ![s].pc = AfterEnd(sess[s].assistant),
                             ![s].outcome = "completed",
                             ![s].endedBy = "eof"]
     \/ sess' = [sess EXCEPT ![s].pc = "errfinal", ![s].outcome = "failed",
                             ![s].err = "read"]
  /\ UNCHANGED <<uiVars, clientVars, TokenChan, runtimeVars, nsess, histVars>>

\* callback(choice.Delta.Content, false)
OaEmit(s) ==
  /\ sess[s].pc = "emit"
  /\ sess[s].provider = "openai"
  /\ Callback(s, sess[s].cur.response, FALSE, "poll")
  /\ UNCHANGED <<uiVars, clientVars, runtimeVars, nsess>>

\* OaCommit with the two appends in the other order
OaCommitSwapped(s) ==
  /\ sess[s].pc = "commit"
  /\ openAIMessages' = openAIMessages
        \o <<[role |-> "assistant", content |-> sess[s].assistant],
             [role |-> "user", content |-> sess[s].prompt]>>
  /\ sess' = [sess EXCEPT
       ![s].pc = "final",
       ![s].changed = TRUE,
       ![s].grew = @ + Len(openAIMessages') - Len(openAIMessages)]
  /\ UNCHANGED <<uiVars, BaseURL, context, TokenChan, runtimeVars, nsess,
                 histVars>>

\* the two appends to c.openAIMessages: the user message, then the assistant's
OaCommit(s) ==
  /\ sess[s].pc = "commit"
  /\ openAIMessages' = openAIMessages
        \o <<[role |-> "user", content |-> sess[s].prompt],
             [role |-> "assistant", content |-> sess[s].assistant]>>
  /\ sess' = [sess EXCEPT
       ![s].pc = "final",
       ![s].changed = TRUE,
       ![s].grew = @ + Len(openAIMessages') - Len(openAIMessages)]
  /\ UNCHANGED <<uiVars, BaseURL, context, TokenChan, runtimeVars, nsess,
                 histVars>>

\* callback("", true) of generateOpenAIResponse: on cancellation, at the end
\* of the body, at the sentinel and at a finish_reason
OaFinal(s) ==
  /\ sess[s].pc = "final"
  /\ sess[s].provider = "openai"
  /\ Callback(s, <<>>, TRUE, "done")
  /\ UNCHANGED <<uiVars, clientVars, runtimeVars, nsess>>

----------------------------------------------------------------------------
(* The program *)

Session(s) ==
  \/ GenOpen(s) \/ GenScanLine(s) \/ GenScanEnd(s) \/ GenEmit(s)
  \/ GenSave(s) \/ GenFinal(s)
  \/ OaOpen(s) \/ OaPoll(s) \/ OaReadLine(s) \/ OaReadEnd(s) \/ OaEmit(s)
  \/ OaCommit(s) \/ OaFinal(s)
  \/ AsyncErrFinal(s)

Next ==
  \/ KeyCtrlC \/ KeyCtrlN \/ KeyOtherAPIKey \/ KeyOtherPrompt
  \/ EnterProvider \/ EnterAPIKey \/ EnterModel \/ EnterPrompt \/ EnterBlank
  \/ UpdateSetCancelFunc \/ UpdateFetchModels \/ UpdateToken \/ UpdateError
  \/ UpdateWindowSize \/ SpinnerTick \/ KeyOtherLoading
  \/ FetchModelsCmd \/ ListenForTokensCmd \/ StartGenerateResponseCmd
  \/ \E s \in Sessions : Session(s)

Spec == Init /\ [][Next]_vars

----------------------------------------------------------------------------
(* The prompting screen *)

\* the prompting screen as the program first shows it: a provider and one of
\* its models were selected and nothing was asked
ChatStart ==
  /\ State = StatePrompting
  /\ SelectedProvider \in Providers
  /\ BaseURL = ProviderURL(SelectedProvider)
  /\ Models = IF SelectedProvider = "openai" THEN HardcodedOpenAIModels
              ELSE <<"gpt-4">>
  /\ SelectedModel = Models[1]
  /\ Input = <<>>
  /\ APIKeyInput = <<>>
  /\ Responses = <<>>
  /\ CurrentPrompt = <<>>
  /\ CurrentResponse = <<>>
  /\ Err = "nil"
  /\ InProgressResponse = <<>>
  /\ IsGenerating = FALSE
  /\ ScreenWidth = DefaultScreenWidth
  /\ CancelGenerate = NoCancel
  /\ quit = FALSE
  /\ context = <<>>
  /\ openAIMessages = <<>>
  /\ TokenChan = <<>>
  /\ cmds = {}
  /\ msgs = {}
  /\ listeners = 0
  /\ sess = [s \in Sessions |-> IdleSession]
  /\ nsess = 0
  /\ applied = <<>>
  /\ spinner = 0
  /\ trace = [s \in Sessions |-> <<>>]
  /\ sent = [s \in Sessions |-> <<>>]
  /\ returned = <<>>

ChatInit == ChatStart /\ scope = "chat"

\* what happens on the prompting screen and while a response is generated
ChatNext ==
  \/ KeyCtrlC \/ KeyCtrlN \/ KeyOtherPrompt \/ EnterPrompt
  \/ UpdateSetCancelFunc \/ UpdateToken
  \/ ListenForTokensCmd \/ StartGenerateResponseCmd
  \/ \E s \in Sessions : Session(s)

ChatSpec == ChatInit /\ [][ChatNext]_vars

DecodeInit == ChatStart /\ scope = "decode"

\* one prompt, and the conversation is not cleared
DecodeNext ==
  \/ KeyCtrlC \/ KeyOtherPrompt \/ EnterPrompt
  \/ UpdateSetCancelFunc \/ UpdateToken
  \/ ListenForTokensCmd \/ StartGenerateResponseCmd
  \/ \E s \in Sessions : Session(s)

DecodeSpec == DecodeInit /\ [][DecodeNext]_vars

\* the prompting screen with the requests of the sessions recorded
ConversationInit == ChatStart /\ scope = "conversation"

ConversationSpec == ConversationInit /\ [][ChatNext]_vars

RelayInit == ChatStart /\ scope = "relay"

\* one prompt, no cancellation, no line with a context: the event loop and
\* the session at any pace
RelayNext ==
  \/ KeyOtherPrompt \/ EnterPrompt
  \/ UpdateSetCancelFunc \/ UpdateToken
  \/ ListenForTokensCmd \/ StartGenerateResponseCmd
  \/ \E s \in Sessions :
       \/ GenOpen(s) \/ GenScanLine(s) \/ GenScanEnd(s) \/ GenEmit(s)
       \/ GenFinal(s)
       \/ OaOpen(s) \/ OaPoll(s) \/ OaReadLine(s) \/ OaReadEnd(s) \/ OaEmit(s)
       \/ OaCommit(s) \/ OaFinal(s)
       \/ AsyncErrFinal(s)

RelaySpec == RelayInit /\ [][RelayNext]_vars

----------------------------------------------------------------------------
(* The relay over two turns *)

\* the prompting screen of the local generator
BacklogInit == ChatStart /\ scope = "backlog" /\ SelectedProvider = "ollama"

\* the user submits the first prompt, and a second prompt when the first turn
\* has left a fragment in the channel
EnterPromptOnBacklog ==
  /\ Len(Responses) = 0 \/ TokenChan # <<>>
  /\ EnterPrompt

\* GenerateResponse and generateResponseAsync on bodies of lines without a
\* context
BacklogSession(s) ==
  \/ GenOpen(s) \/ GenScanLine(s) \/ GenScanEnd(s) \/ GenEmit(s)
  \/ GenFinal(s) \/ AsyncErrFinal(s)

BacklogNext ==
  \/ KeyOtherPrompt \/ EnterPromptOnBacklog
  \/ UpdateSetCancelFunc \/ UpdateToken
  \/ ListenForTokensCmd \/ StartGenerateResponseCmd
  \/ \E s \in Sessions : BacklogSession(s)

\* two turns without cancellation: the runtime runs every command it was
\* handed, Update is handed every message, every goroutine keeps running and
\* every body ends; no key has to be pressed
BacklogSpec ==
  /\ BacklogInit
  /\ [][BacklogNext]_vars
  /\ WF_vars(StartGenerateResponseCmd)
  /\ WF_vars(ListenForTokensCmd)
  /\ WF_vars(UpdateSetCancelFunc)
  /\ WF_vars(UpdateToken)
  /\ \A s \in Sessions : WF_vars(BacklogSession(s))

----------------------------------------------------------------------------
(* The wrapping of one entry *)

\* StateLoading with an open entry that has no text yet, at some width
WrapInit ==
  /\ State = StateLoading
  /\ SelectedProvider = "ollama"
  /\ BaseURL = ProviderURL(SelectedProvider)
  /\ Models = <<"gpt-4">>
  /\ SelectedModel = Models[1]
  /\ Input = <<>>
  /\ APIKeyInput = <<>>
  /\ CurrentPrompt = <<"p">>
  /\ Responses = <<[prompt |-> CurrentPrompt, response |-> <<>>]>>
  /\ CurrentResponse = <<>>
  /\ Err = "nil"
  /\ InProgressResponse = <<>>
  /\ IsGenerating = TRUE
  /\ ScreenWidth \in WrapScreenWidths
  /\ CancelGenerate = NoCancel
  /\ quit = FALSE
  /\ context = <<>>
  /\ openAIMessages = <<>>
  /\ TokenChan = <<>>
  /\ cmds = {}
  /\ msgs = {}
  /\ listeners = 0
  /\ sess = [s \in Sessions |-> IdleSession]
  /\ nsess = 0
  /\ applied = <<>>
  /\ scope = "wrap"
  /\ spinner = 0
  /\ trace = [s \in Sessions |-> <<>>]
  /\ sent = [s \in Sessions |-> <<>>]
  /\ returned = <<>>

\* the TokenMsg case of Update for a fragment of one character: the text of
\* the open entry grows and the entry is rewritten with its wrapping
WrapToken ==
  /\ Len(InProgressResponse) < MaxWrapLen
  /\ \E c \in WrapChars :
       /\ c = "\n"
          => Len(SplitOn(InProgressResponse, "\n")) <= MaxWrapBreaks
       /\ InProgressResponse' = Append(InProgressResponse, c)
       /\ Responses' = UpdateResponse(Responses, CurrentPrompt,
                                      InProgressResponse')
  /\ UNCHANGED <<State, Models, SelectedProvider, SelectedModel, Input,
                 APIKeyInput, CurrentPrompt, CurrentResponse, Err,
                 IsGenerating, ScreenWidth, CancelGenerate, quit>>
  /\ UNCHANGED <<clientVars, TokenChan, runtimeVars, sess, nsess, histVars>>

WrapSpec == WrapInit /\ [][WrapToken]_vars

----------------------------------------------------------------------------
(* Properties *)

\* the terminal fragments of session s that are in the relay or on their way
\* to Update
FinalsPending(s) ==
  Cardinality({i \in 1..Len(TokenChan) :
                 TokenChan[i].sid = s /\ TokenChan[i].Done})
  + Cardinality({m \in msgs : m.type = "TokenMsg" /\ m.sid = s /\ m.Done})

\* Update has taken a terminal fragment of session s
Consumed(s) == sess[s].finals > FinalsPending(s)

\* C1: every generation session, of either provider and however it ends,
\* pushes at most one fragment with Done = true into TokenChan
AtMostOneFinal == \A s \in Sessions : sess[s].finals <= 1

\* C2: once a fragment of a later session was appended to the transcript, no
\* fragment of an earlier session is appended
NoFragmentOfEarlierSession ==
  \A i \in 1..Len(applied) : \A j \in i..Len(applied) :
     applied[i] <= applied[j]

\* C3: a session that was cancelled before natural completion has not changed
\* the stored context nor the message history
CancelKeepsConversation ==
  \A s \in Sessions : sess[s].outcome = "cancelled" => ~sess[s].changed

FailureKeepsConversation ==
  \A s \in Sessions : sess[s].outcome = "failed" => ~sess[s].changed

\* the prompting screen when the runtime runs every command it was handed,
\* Update is handed every message, and every goroutine keeps running; no key
\* has to be pressed
LiveSpec ==
  /\ ChatInit
  /\ [][ChatNext]_vars
  /\ WF_vars(StartGenerateResponseCmd)
  /\ WF_vars(ListenForTokensCmd)
  /\ WF_vars(UpdateSetCancelFunc)
  /\ WF_vars(UpdateToken)
  /\ \A s \in Sessions : WF_vars(Session(s))

\* C6: while the event loop runs, StateLoading leads to StatePrompting, and
\* Update takes a terminal fragment of every session that was started
LoadingEnds ==
  /\ (State = StateLoading /\ ~quit) ~> (State = StatePrompting \/ quit)
  /\ \A s \in Sessions :
       (sess[s].pc # "idle") ~> (Consumed(s) \/ quit)

\* C7: at most one generation goroutine is started and has not returned
AtMostOneLiveSession == Cardinality({s \in Sessions : Live(s)}) <= 1

\* C8: when a session failed and Update has taken its terminal fragment, Err
\* holds the session's error and the state is StatePrompting
FailureSetsErr ==
  \A s \in Sessions :
     sess[s].outcome = "failed" /\ Consumed(s)
     => Err = sess[s].err /\ State = StatePrompting

\* the fragments (response, done) of the lines that decode, up to the first
\* with done = true
FragmentsOf(lines) ==
  LET js == SelectSeq(lines, LAMBDA l : l.kind = "json")
      ends == {i \in 1..Len(js) : js[i].done}
      n == IF ends = {} THEN Len(js)
           ELSE CHOOSE i \in ends : \A k \in ends : i <= k
  IN [i \in 1..n |-> [Token |-> js[i].response, Done |-> js[i].done]]

\* a fragment without text that is not terminal is a no-op
Visible(frags) == SelectSeq(frags, LAMBDA f : f.Token # <<>> \/ f.Done)

ExampleStream ==
  <<[kind |-> "json", response |-> <<"H", "i">>, done |-> FALSE,
     context |-> <<>>],
    [kind |-> "json", response |-> <<"!">>, done |-> TRUE,
     context |-> <<1, 2>>]>>

\* C9: a local-generator session that read a line with done = true and has
\* returned pushed the fragments of the decoded lines up to that line, in
\* order, and nothing else; after the two lines of the example the relay got
\* exactly ("Hi", false), ("!", true) and the stored context is [1, 2]
NDJSONDecoding ==
  \A s \in Sessions :
     sess[s].provider = "ollama" /\ sess[s].pc = "done"
       /\ sess[s].endedBy = "done"
     => /\ sent[s] = Visible(FragmentsOf(trace[s]))
        /\ trace[s] = ExampleStream
           => /\ sent[s] = <<[Token |-> <<"H", "i">>, Done |-> FALSE],
                            [Token |-> <<"!">>, Done |-> TRUE]>>
              /\ context = <<1, 2>>

\* a hosted-chat body whose data lines carry content and which ends with the
\* sentinel
IsDelta(l) == l.kind = "choice" /\ ~l.finish /\ l.content # <<>>

DeltasThenSentinel(lines) ==
  /\ Len(lines) >= 2
  /\ lines[Len(lines)].kind = "sentinel"
  /\ \A i \in 1..(Len(lines) - 1) : IsDelta(lines[i]) \/ lines[i].kind = "blank"
  /\ \E i \in 1..(Len(lines) - 1) : IsDelta(lines[i])

RECURSIVE Concat(_)
Concat(texts) ==
  IF texts = <<>> THEN <<>> ELSE Head(texts) \o Concat(Tail(texts))

DeltaTexts(lines) ==
  LET ds == SelectSeq(lines, IsDelta)
  IN [i \in 1..Len(ds) |-> ds[i].content]

\* C10: a hosted-chat session that read content deltas and then the sentinel
\* pushed each delta as a non-terminal fragment, in order, then one terminal
\* fragment, and appended the user message and the concatenated text of the
\* deltas to the message history
SSEDecoding ==
  \A s \in Sessions :
     sess[s].provider = "openai" /\ sess[s].pc = "done"
       /\ DeltasThenSentinel(trace[s])
     => LET texts == DeltaTexts(trace[s])
        IN /\ sent[s] = [i \in 1..Len(texts) |->
                           [Token |-> texts[i], Done |-> FALSE]]
                        \o <<[Token |-> <<>>, Done |-> TRUE]>>
           /\ openAIMessages =
                <<[role |-> "user", content |-> sess[s].prompt],
                  [role |-> "assistant", content |-> Concat(texts)]>>

SSEDecoded ==
  \E s \in Sessions :
     /\ sess[s].provider = "openai"
     /\ sess[s].pc = "done"
     /\ DeltasThenSentinel(trace[s])
     /\ DeltaTexts(trace[s]) = <<<<"H", "i">>, <<"!">>>>
     /\ Len(openAIMessages) = 2

\* C11: a session whose body ended without a done line, a sentinel or a
\* finish_reason has pushed exactly one terminal fragment, as its last
\* fragment, has returned no error, and (hosted chat) has committed the turn
\* as on any completion: two messages if the body carried content
EndOfStreamIsFinal ==
  \A s \in Sessions :
     sess[s].pc = "done" /\ sess[s].endedBy = "eof"
     => /\ sess[s].finals = 1
        /\ sess[s].err = "nil"
        /\ sent[s] # <<>>
        /\ \A i \in 1..Len(sent[s]) : sent[s][i].Done <=> i = Len(sent[s])
        /\ sess[s].provider = "openai"
           => Len(openAIMessages) = IF Len(sent[s]) > 1 THEN 2 ELSE 0

EndOfStreamReached ==
  /\ sess[1].pc = "done"
  /\ sess[1].endedBy = "eof"
  /\ Len(trace[1]) = 2
  /\ Len(sent[1]) = 3
  /\ ~sess[1].cancelled
  /\ sess[1].provider = "openai"
  /\ Len(openAIMessages) = 2

\* the chain StateProviderSelect, StateAPIKeyInput (optional),
\* StateModelSelect, StatePrompting and StateLoading in alternation
ScreenChain(from, to) ==
  \/ to = from
  \/ from = StateProviderSelect /\ to \in {StateAPIKeyInput, StateModelSelect}
  \/ from = StateAPIKeyInput /\ to = StateModelSelect
  \/ from = StateModelSelect /\ to = StatePrompting
  \/ from = StatePrompting /\ to = StateLoading
  \/ from = StateLoading /\ to = StatePrompting

\* C12: every step keeps the screen state or moves it to a successor in the
\* chain, and StateModelSelect is left only with a model of the list selected
ScreenStateChain ==
  [][/\ ScreenChain(State, State')
     /\ State = StateModelSelect /\ State' # StateModelSelect
        => \E i \in 1..Len(Models) : SelectedModel' = Models[i]]_vars

\* C13: StateLoading is entered only from StatePrompting by the submission
\* of a non-blank prompt; it is left only to StatePrompting, by Update taking
\* a terminal fragment or an error message; and in StatePrompting and
\* StateLoading a blank prompt, a key without a binding, a resize and a
\* spinner tick leave the state, the transcript and the session as they are
LoadingEntryAndExit ==
  [][/\ State # StateLoading /\ State' = StateLoading
        => /\ State = StatePrompting
           /\ TrimSpace(Input) # <<>>
           /\ Responses' = Append(Responses,
                                  [prompt |-> Input, response |-> <<>>])
     /\ State = StateLoading /\ State' # StateLoading
        => /\ State' = StatePrompting
           /\ \E m \in msgs \ msgs' :
                \/ m.type = "TokenMsg" /\ m.Done
                \/ m.type = "ErrorMsg"
     /\ /\ State \in {StatePrompting, StateLoading}
        /\ \/ EnterBlank \/ KeyOtherPrompt \/ KeyOtherLoading
           \/ UpdateWindowSize \/ SpinnerTick
        => UNCHANGED <<State, Responses, InProgressResponse, CurrentResponse,
                       IsGenerating, CancelGenerate, sess, nsess, cmds,
                       msgs, listeners, TokenChan>>]_vars

LoadingEnteredAndLeft ==
  /\ State = StatePrompting
  /\ Len(Responses) = 1
  /\ Responses[1].response # <<>>
  /\ Input = <<"\n">>
  /\ spinner # 0
  /\ ScreenWidth # DefaultScreenWidth

\* C14: in StatePrompting no cancel function is held and nothing is being
\* generated, whatever the order in which Update is handed the
\* SetCancelFuncMsg and the fragments of a session
PromptingReleasesHandle ==
  State = StatePrompting => CancelGenerate = NoCancel /\ ~IsGenerating

\* C15: the step in which Ctrl+C or Esc makes the program quit (or go back)
\* has cancelled every generation goroutine that is running, whether or not
\* Update was handed its SetCancelFuncMsg yet
CancelKeyCancelsLiveSession ==
  [][(quit' /\ ~quit) \/ (State = StateAPIKeyInput
                          /\ State' = StateProviderSelect)
     => \A s \in Sessions : Live(s) => sess'[s].cancelled]_vars

\* C16: a key press clears the stored context and the message history only
\* in StatePrompting and with no generation goroutine running
ClearOnlyWhenIdle ==
  [][/\ HasContext
     /\ context' = <<>> /\ openAIMessages' = <<>>
     /\ UNCHANGED <<sess, cmds>>
     => State = StatePrompting /\ \A s \in Sessions : ~Live(s)]_vars

\* C17: HasContext is false while no turn has run on the client, false right
\* after Ctrl+N has called ClearContext, and true right after a session has
\* stored a context vector or appended a pair to the message history
HasContextTracksConversation ==
  /\ [](nsess = 0 => ~HasContext)
  /\ [][/\ KeyCtrlN => ~HasContext'
        /\ \A s \in Sessions :
             sess'[s].changed /\ ~sess[s].changed => HasContext']_vars

HasContextAfterClearAndCommit ==
  /\ sess[1].changed
  /\ sess[2].changed
  /\ HasContext
  /\ Len(openAIMessages) = 2

\* C18: while the event loop runs a resize is accepted in every state, and
\* the step that takes it leaves the screen state, IsGenerating, the
\* transcript and the open entry's text as they are
ResizeChangesLayoutOnly ==
  /\ [](~quit => ENABLED UpdateWindowSize)
  /\ [][ScreenWidth' # ScreenWidth
        => UNCHANGED <<State, IsGenerating, Responses, InProgressResponse>>]_vars

ResizedWhileLoading ==
  /\ State = StateLoading
  /\ InProgressResponse # <<>>
  /\ Responses[1].response = InProgressResponse
  /\ ScreenWidth # DefaultScreenWidth

\* C19: when Update is handed the outcome of a model listing that failed (an
\* error, or the built-in list in place of the listing), the UI stays in
\* StateModelSelect, the model list is not empty and Err is not touched
ListingFailureFallsBack ==
  [][\A m \in msgs \ msgs' :
       \/ m.type = "ErrorMsg"
       \/ m.type = "FetchModelsMsg" /\ m.Models = HardcodedOpenAIModels
       => /\ State = StateModelSelect
          /\ State' = StateModelSelect
          /\ Models' # <<>>
          /\ Err' = Err]_vars

\* C20: in every screen state the step that takes Esc or Ctrl+C makes the
\* program quit, with every running generation cancelled
CancelKeyQuits ==
  [][KeyCtrlC
     => /\ quit'
        /\ \A s \in Sessions : Live(s) => sess'[s].cancelled]_vars

\* the fragments of session s that are in the channel, in the channel's order
InChan(s) == SelectSeq(TokenChan, LAMBDA m : m.sid = s)

\* the fragments that a ListenForTokensCmd received and Update was not handed
InFlight == {m \in msgs : m.type = "TokenMsg"}

\* C21: every fragment a session pushed was handed to Update, or is the one
\* on its way to Update, or is in the channel, the fragments of a session in
\* the order of their pushing and none twice; the channel is a queue that
\* grows at its tail and shrinks at its head by the fragment a listener
\* receives; and while the channel holds TokenChanCap fragments no fragment is
\* pushed and a goroutine that is at a push waits there
RelayIsFIFO ==
  /\ [](/\ Len(TokenChan) <= TokenChanCap
        /\ Cardinality(InFlight) <= 1
        /\ \A s \in Sessions :
             LET q == InChan(s)
                 f == {m \in InFlight : m.sid = s}
             IN /\ sess[s].nemit = sess[s].taken + Cardinality(f) + Len(q)
                /\ \A m \in f : m.seq = sess[s].taken + 1
                /\ \A i \in 1..Len(q) :
                     q[i].seq = sess[s].nemit - Len(q) + i)
  /\ [][/\ \/ TokenChan' = TokenChan
           \/ /\ TokenChan # <<>>
              /\ TokenChan' = Tail(TokenChan)
              /\ msgs' = msgs \cup {Head(TokenChan)}
           \/ /\ Len(TokenChan) < TokenChanCap
              /\ \E s \in Sessions :
                   /\ sess'[s].nemit = sess[s].nemit + 1
                   /\ TokenChan' # <<>>
                   /\ TokenChan' = Append(TokenChan,
                                          TokenChan'[Len(TokenChan')])
                   /\ TokenChan'[Len(TokenChan')].sid = s
        /\ Len(TokenChan) = TokenChanCap
           => \A s \in Sessions :
                sess[s].pc \in {"emit", "final", "errfinal"}
                => sess'[s].pc = sess[s].pc
                   /\ sess'[s].nemit = sess[s].nemit]_vars

\* the channel is full, the session waits at its terminal push
RelayFullProducerWaits ==
  /\ Len(TokenChan) = TokenChanCap
  /\ sess[1].pc = "final"
  /\ sess[1].nemit = TokenChanCap
  /\ sess[1].taken = 0
  /\ ~ENABLED GenFinal(1)

\* a line that does not parse: no JSON, or (hosted chat) no "data: " prefix
Malformed(l) == l.kind \in {"badjson", "noprefix"}

WellFormed(lines) == SelectSeq(lines, LAMBDA l : ~Malformed(l))

\* the fragments GenerateResponse pushes for the lines of a body, up to the
\* first line with done = true
RECURSIVE OllamaPushed(_)
OllamaPushed(lines) ==
  IF lines = <<>> THEN <<>>
  ELSE LET l == Head(lines)
       IN IF l.kind # "json" THEN OllamaPushed(Tail(lines))
          ELSE (IF l.response # <<>>
                THEN <<[Token |-> l.response, Done |-> l.done]>>
                ELSE <<>>)
               \o (IF l.done THEN <<[Token |-> <<>>, Done |-> TRUE]>>
                   ELSE OllamaPushed(Tail(lines)))

\* the fragments generateOpenAIResponse pushes for the lines of a body
OpenAIPushed(lines) ==
  LET texts == DeltaTexts(lines)
  IN [i \in 1..Len(texts) |-> [Token |-> texts[i], Done |-> FALSE]]

\* the session reads a line in this step
ReadsLine(s, l) == trace'[s] = Append(trace[s], l)

\* C22: the step in which a session that is not cancelled reads a malformed
\* line pushes nothing, leaves the stored context, the message history and
\* the session's accumulated text as they are, and takes the session back to
\* the head of its read loop; and a session that completed or failed has
\* pushed the fragments of its body without the malformed lines
MalformedLineIsDropped ==
  /\ [](\A s \in Sessions :
          sess[s].pc = "done" /\ sess[s].outcome \in {"completed", "failed"}
          => sent[s] = IF sess[s].provider = "openai"
                       THEN OpenAIPushed(WellFormed(trace[s]))
                            \o <<[Token |-> <<>>, Done |-> TRUE]>>
                       ELSE OllamaPushed(WellFormed(trace[s]))
                            \o IF sess[s].endedBy = "done" THEN <<>>
                               ELSE <<[Token |-> <<>>, Done |-> TRUE]>>)
  /\ [][\A s \in Sessions : \A l \in OllamaLines \cup OpenAILines :
          ReadsLine(s, l) /\ Malformed(l) /\ ~sess[s].cancelled
          => /\ UNCHANGED <<sent, TokenChan, context, openAIMessages>>
             /\ sess'[s] = [sess[s] EXCEPT
                              !.nread = @ + 1,
                              !.pc = IF sess[s].provider = "openai"
                                     THEN "poll" ELSE "scan"]]_vars

\* a body of two deltas with a line that is no JSON between them
MalformedLineBetweenDeltas ==
  /\ sess[1].pc = "done"
  /\ sess[1].provider = "openai"
  /\ Len(trace[1]) = 3
  /\ IsDelta(trace[1][1])
  /\ trace[1][2].kind = "badjson"
  /\ IsDelta(trace[1][3])
  /\ Len(sent[1]) = 3
  /\ Len(openAIMessages) = 2

\* the longest of the lines of a text, and of the words of its lines
RECURSIVE MaxLen(_)
MaxLen(seqs) ==
  IF seqs = <<>> THEN 0
  ELSE LET m == MaxLen(Tail(seqs))
       IN IF Len(Head(seqs)) > m THEN Len(Head(seqs)) ELSE m

LongestLine(text) == MaxLen(SplitOn(text, "\n"))

RECURSIVE LongestWord(_)
LongestWord(lines) ==
  IF lines = <<>> THEN 0
  ELSE LET a == MaxLen(Fields(Head(lines)))
           b == LongestWord(Tail(lines))
       IN IF a > b THEN a ELSE b

\* C23: when every word of the text is at most width characters long and
\* width > 10, no line of WrapText(text, width) is longer than width; when
\* width <= 10, WrapText(text, width) is the text; the open entry holds
\* WrapText of its text at the screen width less 10
WrapTextFitsWidth ==
  LET text == InProgressResponse
      width == ScreenWidth - 10
      out == WrapText(text, width)
  IN /\ width > 10 /\ LongestWord(SplitOn(text, "\n")) <= width
        => LongestLine(out) <= width
     /\ width <= 10 => out = text
     /\ scope = "wrap" => Responses[1].response = out

\* a line of two words that is longer than the width was split in two
WrapTextSplitALine ==
  /\ scope = "wrap"
  /\ ScreenWidth - 10 > 10
  /\ InProgressResponse = <<"a", "a", "a", "a", "a", " ",
                            "a", "a", "a", "a", "a", "a">>
  /\ Responses[1].response = <<"a", "a", "a", "a", "a", "\n",
                               "a", "a", "a", "a", "a", "a">>

\* C24: the step in which a session's cancellation check finds its context
\* cancelled pushes nothing and takes the session to its terminal push; from
\* then on the session reads no line, and its only push is one fragment with
\* empty text and Done = true, after which it has returned
CancelObservedEndsSession ==
  /\ [](\A s \in Sessions :
          sess[s].outcome = "cancelled" => sess[s].pc \in {"final", "done"})
  /\ [][\A s \in Sessions :
          /\ sess'[s].outcome = "cancelled" /\ sess[s].outcome # "cancelled"
             => /\ sess[s].cancelled
                /\ sess'[s].pc = "final"
                /\ sent'[s] = sent[s]
          /\ sess[s].outcome = "cancelled"
             => /\ trace'[s] = trace[s]
                /\ sess'[s].outcome = "cancelled"
                /\ \/ sent'[s] = sent[s] /\ sess'[s].pc = sess[s].pc
                   \/ /\ sess[s].pc = "final"
                      /\ sess'[s].pc = "done"
                      /\ sent'[s] = Append(sent[s], [Token |-> <<>>,
                                                     Done |-> TRUE])]_vars

\* a session was cancelled after its first text fragment: the line that its
\* scanner held when the check fired was not decoded
CancelledAfterFirstFragment ==
  /\ sess[1].pc = "done"
  /\ sess[1].outcome = "cancelled"
  /\ sess[1].provider = "ollama"
  /\ Len(trace[1]) = 2
  /\ trace[1][2].kind = "json" /\ trace[1][2].response # <<>>
  /\ sent[1] = <<[Token |-> <<"H", "i">>, Done |-> FALSE],
                 [Token |-> <<>>, Done |-> TRUE]>>

\* C25: every fragment that Update appends to the open entry, the entry of
\* turn k, is the next fragment of the session started for turn k, and when
\* a terminal fragment closes the entry the session's text fragments have all
\* been appended: the entry's text is the concatenation of that session's
\* text fragments and nothing else
EntryHoldsItsSessionOnly ==
  [][\A m \in msgs \ msgs' :
       m.type = "TokenMsg" /\ ~(m.Done /\ ~IsGenerating)
       => /\ m.sid = Len(Responses)
          /\ m.seq = sess[m.sid].taken + 1
          /\ InProgressResponse' = InProgressResponse \o m.Token
          /\ m.Done => \A i \in 1..Len(TokenChan) :
                         TokenChan[i].sid = m.sid
                         => TokenChan[i].Token = <<>>]_vars

\* C26: once Update has taken a terminal fragment of a session, the session
\* pushes no fragment and no step of it writes the stored context or the
\* message history
NothingAfterTerminalTaken ==
  [][\A s \in Sessions :
       Consumed(s)
       => /\ sess'[s].nemit = sess[s].nemit
          /\ sess'[s].pc # sess[s].pc
             => UNCHANGED <<context, openAIMessages>>]_vars

\* C27: a session that has changed the stored context or the message history
\* pushes no fragment
NoPushAfterWrite ==
  [][\A s \in Sessions :
       sess[s].changed => sess'[s].nemit = sess[s].nemit]_vars

\* C28: a step of a session changes the stored context only when it is a
\* local-generator session that holds a decoded line with a non-empty
\* context, and then the stored context becomes that vector; a decoded line
\* with a non-empty context is stored before the session reads on, returns
\* or pushes its terminal fragment
ContextChangesOnlyBySave ==
  [][/\ context' # context /\ sess' # sess
        => \E s \in Sessions :
             /\ sess[s].provider = "ollama"
             /\ sess[s].pc = "save"
             /\ sess[s].cur.context # <<>>
             /\ context' = sess[s].cur.context
     /\ \A s \in Sessions :
          /\ sess[s].pc = "save" /\ sess'[s].pc # "save"
             => context' = sess[s].cur.context
          /\ sess[s].provider = "ollama" /\ sess[s].pc = "emit"
               /\ sess'[s].pc # "emit" /\ sess[s].cur.context # <<>>
             => sess'[s].pc = "save"
     /\ returned' # returned /\ returned' # <<>>
        => \E s \in Sessions :
             /\ sess'[s].pc \in {"emit", "save"}
             /\ sess'[s].cur.context = returned']_vars

\* the second session replaced the vector the first had stored, and read a
\* line without context after it
ContextReplaced ==
  /\ sess[1].provider = "ollama" /\ sess[1].changed
  /\ sess[2].provider = "ollama" /\ sess[2].changed
  /\ sess[2].request.context = <<1, 2>>
  /\ sess[2].pc = "scan" /\ sess[2].nread = 2
  /\ sess[2].cur.context = <<>>
  /\ context = <<3>>

\* C29: the request a local-generator session sends carries the last
\* non-empty context that a session decoded from a line since the client was
\* made or cleared, and no context if there was none
RequestReplaysLastContext ==
  [][\A s \in Sessions :
       sess[s].pc = "open" /\ sess'[s].provider = "ollama"
       => sess'[s].request.context = returned]_vars

UserMessage(s) == [role |-> "user", content |-> sess[s].prompt]

\* C30: the request a hosted-chat session sends carries the message history
\* followed by the user message of its prompt, and sending it leaves the
\* history as it is; a step of a session changes the history only by
\* appending its user message and a non-empty assistant message together,
\* once the turn has completed
RequestCarriesHistoryAndPrompt ==
  [][/\ \A s \in Sessions :
          sess[s].pc = "open" /\ sess'[s].provider = "openai"
          => /\ sess'[s].request.messages
                  = openAIMessages \o <<UserMessage(s)>>
             /\ openAIMessages' = openAIMessages
     /\ openAIMessages' # openAIMessages /\ sess' # sess
        => \E s \in Sessions :
             /\ sess[s].provider = "openai"
             /\ sess[s].outcome = "completed"
             /\ sess[s].assistant # <<>>
             /\ openAIMessages' = openAIMessages
                   \o <<UserMessage(s),
                        [role |-> "assistant",
                         content |-> sess[s].assistant]>>]_vars

\* the second turn's request carried the first turn's pair and its own user
\* message, and its pair was committed when it completed
SecondRequestCarriedFirstTurn ==
  /\ sess[2].provider = "openai"
  /\ sess[2].pc = "done"
  /\ Len(sess[2].request.messages) = 3
  /\ sess[2].request.messages[2].role = "assistant"
  /\ sess[2].request.messages[3] = UserMessage(2)
  /\ Len(openAIMessages) = 4
  /\ SubSeq(openAIMessages, 1, 3) = sess[2].request.messages


\* the text of the fragment of session s that a listener received and Update
\* was not handed
InFlightText(s) ==
  IF \E m \in InFlight : m.sid = s /\ ~m.Done
  THEN (CHOOSE m \in InFlight : m.sid = s /\ ~m.Done).Token
  ELSE <<>>

\* the text session s pushed while its entry is the open one: what Update
\* appended to the entry, then the fragment on its way, then the fragments in
\* the channel
PushedText(s) ==
  LET q == InChan(s)
  IN InProgressResponse \o InFlightText(s)
       \o Concat([i \in 1..Len(q) |-> q[i].Token])

\* C31: the message history has even length and its roles alternate user,
\* assistant; it changes only by being cleared or by one session appending
\* the pair of its prompt and the concatenated text of the deltas it pushed,
\* and no other goroutine runs while a session is at the two appends
HistoryAlternates ==
  /\ [](/\ Len(openAIMessages) % 2 = 0
        /\ \A i \in 1..Len(openAIMessages) :
             openAIMessages[i].role = IF i % 2 = 1 THEN "user" ELSE "assistant"
        /\ \A s \in Sessions :
             sess[s].pc = "commit" => \A t \in Sessions \ {s} : ~Live(t))
  /\ [][openAIMessages' # openAIMessages
        => \/ openAIMessages' = <<>>
           \/ \E s \in Sessions :
                /\ sess[s].pc = "commit"
                /\ sess'[s].pc = "final"
                /\ PushedText(s) # <<>>
                /\ openAIMessages' = openAIMessages
                     \o <<[role |-> "user", content |-> sess[s].prompt],
                          [role |-> "assistant", content |-> PushedText(s)]>>]_vars

TwoTurnsInHistory ==
  /\ Len(openAIMessages) = 4
  /\ openAIMessages[1].content = <<"p">>
  /\ openAIMessages[2].content = <<"a", "a">>
  /\ openAIMessages[4].content = <<"a">>


\* C32: the transcript never shrinks; it grows only by the submission of a
\* prompt appending an entry without text; no step changes an entry below the
\* last; and the last entry is not changed while the UI is in StatePrompting
\* nor once Update has taken a terminal fragment of the entry's session
TranscriptAppendOnly ==
  [][/\ Len(Responses') >= Len(Responses)
     /\ Len(Responses') > Len(Responses)
        => /\ State = StatePrompting
           /\ Responses' = Append(Responses,
                                  [prompt |-> Input, response |-> <<>>])
     /\ \A i \in 1..Len(Responses) :
          i < Len(Responses) \/ State = StatePrompting \/ Consumed(i)
          => Responses'[i] = Responses[i]]_vars

SecondEntryAfterFirst ==
  /\ State = StatePrompting
  /\ Len(Responses) = 2
  /\ Responses[1].response = <<"a">>
  /\ Responses[2].response = <<"a", "a">>
  /\ Consumed(1)
  /\ Consumed(2)


\* C33: at most one ListenForTokensCmd is waiting on the channel, one waits
\* only while the UI is in StateLoading, and the step in which Update takes a
\* fragment starts one wait if the fragment is not terminal and none if it is
OneRelayWait ==
  /\ [](/\ listeners <= 1
        /\ listeners > 0 => State = StateLoading)
  /\ [][\A m \in msgs \ msgs' :
          m.type = "TokenMsg"
          => listeners' = listeners + (IF m.Done THEN 0 ELSE 1)]_vars

WaitRearmedInSecondTurn ==
  /\ State = StateLoading
  /\ listeners = 1
  /\ Len(Responses) = 2
  /\ Responses[1].response # <<>>
  /\ InProgressResponse # <<>>
  /\ sess[1].taken >= 2


\* C34: IsGenerating is true exactly when the screen state is StateLoading
GeneratingIffLoading == IsGenerating <=> State = StateLoading

LoadingWasLeft ==
  /\ State = StatePrompting
  /\ ~IsGenerating
  /\ Len(Responses) = 1
  /\ Consumed(1)
  /\ Err = "nil"


\* C35: in StatePrompting and StateLoading a model is selected, and no
\* generation goroutine was started with an empty model name
ModelSelectedWhenPrompting ==
  /\ State \in {StatePrompting, StateLoading} => SelectedModel # ""
  /\ \A s \in Sessions : sess[s].pc # "idle" => sess[s].model # ""


\* C36: while the event loop runs, every generation goroutine that was started
\* returns
SessionsReturn ==
  \A s \in Sessions : (sess[s].pc # "idle") ~> (sess[s].pc = "done" \/ quit)


\* a decoded piece of a body that has no text and does not end the response
EmptyPiece(l) ==
  \/ l.kind = "json" /\ l.response = <<>> /\ ~l.done
  \/ l.kind = "choice" /\ ~l.finish /\ l.content = <<>>

CredentialInputGate ==
  [][/\ \A p \in Providers, envKey \in KeyValues, cfgKey \in KeyValues,
           loaded \in BOOLEAN :
          EnterProviderWith(p, ResolvedKey(envKey, cfgKey, loaded))
          => /\ State' = StateAPIKeyInput
                <=> /\ p = "openai"
                    /\ envKey = <<>>
                    /\ ~(loaded /\ cfgKey # <<>>)
             /\ State' \in {StateAPIKeyInput, StateModelSelect}
     /\ State # StateAPIKeyInput /\ State' = StateAPIKeyInput
        => EnterProvider
     /\ State = StateAPIKeyInput /\ State' = StateModelSelect
        => EnterAPIKey /\ TrimSpace(APIKeyInput) # <<>>
     /\ EnterAPIKey /\ TrimSpace(APIKeyInput) = <<>>
        => State' = StateAPIKeyInput]_vars

KeyTypedThenModelSelect ==
  /\ State = StateModelSelect
  /\ SelectedProvider = "openai"
  /\ APIKeyInput = <<"p">>
  /\ cmds = {[type |-> "FetchModelsCmd", provider |-> "openai"]}

====
